---- MODULE Spec2Model ----
(***************************************************************************)
(* Model of helix-core/src/selection.rs: the Range and Selection value     *)
(* types, Selection normalization (sort + merge with primary tracking),    *)
(* and the match-driven transforms keep_matches, select_on_matches and     *)
(* split_on_matches.                                                       *)
(***************************************************************************)
EXTENDS Integers, Sequences, FiniteSets, TLC

VARIABLES sel, last

vars == <<sel, last>>

(***************************************************************************)
(* Bounds of the model.                                                    *)
(***************************************************************************)
\* Largest char offset into the buffer; texts hold MaxPos chars.
MaxPos == 3
\* Most ranges a Selection is grown to by the pushes of a sequence of
\* operations (the push recorded in full may add one more), and longest list
\* handed to Selection::new by the constructor of Spec.
MaxRanges == 2
\* SpecNew: largest char offset and longest list handed to Selection::new.
NormMaxPos == 2
NormMaxRanges == 3

Positions == 0..MaxPos

(***************************************************************************)
(* Option<u32>: None is the empty sequence, Some(v) the one-element one.   *)
(***************************************************************************)
None == <<>>
Some(v) == <<v>>
HorizValues == {None, Some(0)}

Min(x, y) == IF x < y THEN x ELSE y
Max(x, y) == IF x > y THEN x ELSE y

(***************************************************************************)
(* Range                                                                   *)
(***************************************************************************)
Range(a, h, z) == [anchor |-> a, head |-> h, horiz |-> z]

RangeNew(anchor, head) == Range(anchor, head, None)

RangePoint(head) == RangeNew(head, head)

from(r) == Min(r.anchor, r.head)

to(r) == Max(r.anchor, r.head)

is_empty(r) == r.anchor = r.head

\* A plausible slip: >= for >, making ranges that touch at an edge overlap.
overlaps_closed(a, b) ==
    from(a) = from(b) \/ (to(a) >= from(b) /\ to(b) >= from(a))

overlaps(a, b) ==
    from(a) = from(b) \/ (to(a) > from(b) /\ to(b) > from(a))

contains(r, pos) == from(r) <= pos /\ pos < to(r)

extend(r, f, t) ==
    IF r.anchor <= r.head
    THEN Range(Min(r.anchor, f), Max(r.head, t), None)
    ELSE Range(Max(r.anchor, t), Min(r.head, f), None)

\* Ranges without a horizontal hint, and all ranges of the model.
PlainRanges == {RangeNew(a, h) : a \in Positions, h \in Positions}
Ranges == {Range(a, h, z) : a \in Positions, h \in Positions, z \in HorizValues}

(***************************************************************************)
(* Selection                                                               *)
(***************************************************************************)
Selection(ranges, primary_index) ==
    [ranges |-> ranges, primary_index |-> primary_index]

primary(s) == s.ranges[s.primary_index + 1]

cursor(s) == primary(s).head

\* ranges.sort_unstable_by_key(Range::from): the sort may leave ranges of equal
\* key in any relative order, so every permutation of the list that is sorted
\* by from() is a possible outcome.  An order is a sequence q of the indices
\* 1..n, the sorted list being ranges[q[1]], ..., ranges[q[n]].  OrdersOf
\* lists the orders of the indices in rest: each starts with an index of the
\* least key.
RECURSIVE OrdersOf(_, _)
OrdersOf(ranges, rest) ==
    IF rest = {} THEN {<<>>}
    ELSE LET least == {i \in rest : \A j \in rest :
                            from(ranges[i]) <= from(ranges[j])}
         IN  UNION {{<<i>> \o q : q \in OrdersOf(ranges, rest \ {i})} :
                        i \in least}

SortOrders(ranges) == OrdersOf(ranges, DOMAIN ranges)

\* The order a stable sort would produce: ties keep their original order.
StableOrder(ranges) ==
    CHOOSE q \in SortOrders(ranges) :
        \A i \in 1..(Len(ranges) - 1) :
            from(ranges[q[i]]) = from(ranges[q[i + 1]]) => q[i] < q[i + 1]

Sorted(ranges, order) == [i \in DOMAIN ranges |-> ranges[order[i]]]

\* ranges.iter().position(|&range| range == primary).unwrap(), 0-based.
position(ranges, p) ==
    (CHOOSE i \in DOMAIN ranges :
        ranges[i] = p /\ \A j \in 1..(i - 1) : ranges[j] # p) - 1

\* A plausible slip: the merged end taken from the incoming range alone.
MergeInto_noMax(prev, range) ==
    IF range.anchor > range.head
    THEN [prev EXCEPT !.anchor = to(range), !.head = from(prev)]
    ELSE [prev EXCEPT !.anchor = from(prev), !.head = to(range)]

\* "merge into previous": the span is [prev.from(), max(range.to(), prev.to())],
\* the direction is the incoming range's, prev.horiz stays.
MergeInto(prev, range) ==
    LET from_ == from(prev)
        to_ == Max(to(range), to(prev))
    IN  IF range.anchor > range.head
        THEN [prev EXCEPT !.anchor = to_, !.head = from_]
        ELSE [prev EXCEPT !.anchor = from_, !.head = to_]

\* A plausible slip: every merge decrements the primary index.
DecrementsPrimary_always(i, primary_index) == TRUE

\* A plausible slip: < for <=.
DecrementsPrimary_strict(i, primary_index) == i < primary_index

\* "if i <= primary_index { primary_index -= 1 }"
DecrementsPrimary(i, primary_index) == i <= primary_index

\* The sweep of normalize over the sorted list, from its k-th range on.
\* underflow records a "primary_index -= 1" taken at 0 (usize).
RECURSIVE Sweep(_, _, _, _, _, _)
Sweep(ranges, k, result, i, primary_index, underflow) ==
    IF k > Len(ranges)
    THEN [ranges |-> result, primary_index |-> primary_index,
          underflow |-> underflow]
    ELSE LET range == ranges[k] IN
         IF result # <<>> /\ overlaps(range, result[Len(result)])
         THEN LET dec == DecrementsPrimary(i, primary_index) IN
              Sweep(ranges, k + 1,
                    [result EXCEPT ![Len(result)] = MergeInto(@, range)],
                    i,
                    IF dec THEN primary_index - 1 ELSE primary_index,
                    underflow \/ (dec /\ primary_index = 0))
         ELSE Sweep(ranges, k + 1, Append(result, range), i + 1,
                    primary_index, underflow)

\* Selection::normalize, with the order the unstable sort produced.
normalize(ranges, primary_index, order) ==
    LET p == ranges[primary_index + 1]
        sorted == Sorted(ranges, order)
    IN  Sweep(sorted, 1, <<>>, 0, position(sorted, p), FALSE)

Panic == [panic |-> TRUE]

\* A plausible slip: the fast path's "primary_index: 0" on every path.
SelectionNew_primaryZero(ranges, primary_index, order) ==
    IF ranges = <<>> THEN Panic
    ELSE IF Len(ranges) = 1
         THEN [ranges |-> ranges, primary_index |-> 0, underflow |-> FALSE]
         ELSE [normalize(ranges, primary_index, order) EXCEPT
                    !.primary_index = 0]

\* Selection::new; Panic when the assert fails.
SelectionNew(ranges, primary_index, order) ==
    IF ranges = <<>> THEN Panic
    ELSE IF Len(ranges) = 1
         THEN [ranges |-> ranges, primary_index |-> 0, underflow |-> FALSE]
         ELSE normalize(ranges, primary_index, order)

single(anchor, head) ==
    [ranges |-> <<Range(anchor, head, None)>>, primary_index |-> 0]

point(pos) == single(pos, pos)

into_single(s) ==
    IF Len(s.ranges) = 1 THEN s
    ELSE Selection(<<s.ranges[s.primary_index + 1]>>, 0)

push(s, range, order) ==
    LET index == Len(s.ranges)
    IN  normalize(Append(s.ranges, range), index, order)

AsSelection(r) == Selection(r.ranges, r.primary_index)

\* A Selection returned by a call that does not normalize.
Returned(s) ==
    [ranges |-> s.ranges, primary_index |-> s.primary_index,
     underflow |-> FALSE]

\* The closures handed to transform: the identity, a flip of anchor and head,
\* a collapse onto the head, Range::extend to cover [from, to], and the
\* vertical move that caches the column in horiz.
Hint == [kind |-> "horiz"]

Closures ==
    {[kind |-> "identity"], [kind |-> "flip"], [kind |-> "point"]}
        \cup {[kind |-> "extend", from |-> f, to |-> t] :
                f \in Positions, t \in Positions}

Apply(f, r) ==
    CASE f.kind = "identity" -> r
      [] f.kind = "flip" -> Range(r.head, r.anchor, r.horiz)
      [] f.kind = "point" -> RangePoint(r.head)
      [] f.kind = "horiz" -> Range(r.anchor, r.head, Some(0))
      [] f.kind = "extend" -> extend(r, f.from, f.to)

\* Selection::transform: f applied to every range, then Selection::new.
transform(s, f, order) ==
    SelectionNew([i \in DOMAIN s.ranges |-> Apply(f, s.ranges[i])],
                 s.primary_index, order)

(***************************************************************************)
(* ChangeSet (transaction.rs), through the two calls selection.rs makes:   *)
(* is_empty() and map_pos(pos, Assoc::After).  A change set here is empty, *)
(* one insertion of len chars at a position, or one deletion of the chars  *)
(* [from, to).                                                             *)
(***************************************************************************)
EmptyChanges == [kind |-> "empty"]
Insertion(at, len) == [kind |-> "insert", at |-> at, len |-> len]
Deletion(f, t) == [kind |-> "delete", from |-> f, to |-> t]

ChangeSets ==
    {EmptyChanges}
        \cup {Insertion(at, 1) : at \in Positions}
        \cup {Deletion(f, t) : f \in Positions, t \in Positions}

changes_is_empty(changes) == changes.kind = "empty"

\* Assoc::After: a position at the insertion point moves behind the insertion.
map_pos(changes, pos) ==
    CASE changes.kind = "empty" -> pos
      [] changes.kind = "insert" ->
            IF pos >= changes.at THEN pos + changes.len ELSE pos
      [] changes.kind = "delete" ->
            IF pos <= changes.from THEN pos
            ELSE IF pos < changes.to THEN changes.from
            ELSE pos - (changes.to - changes.from)

\* Range::map
RangeMap(r, changes) ==
    Range(map_pos(changes, r.anchor), map_pos(changes, r.head), None)

\* Selection::map; the fast path returns self untouched.
SelectionMap(s, changes, order) ==
    IF changes_is_empty(changes)
    THEN Returned(s)
    ELSE SelectionNew([i \in DOMAIN s.ranges |-> RangeMap(s.ranges[i], changes)],
                      s.primary_index, order)

(***************************************************************************)
(* The text source (Rope): a sequence of chars.  " " is a one-byte         *)
(* whitespace char, "E" stands for a letter that takes two bytes in UTF-8, *)
(* so that char offsets and byte offsets differ.                           *)
(***************************************************************************)
Chars == {" ", "E"}

len_utf8(c) == IF c = " " THEN 1 ELSE 2

Texts == [1..MaxPos -> Chars]

RECURSIVE ByteLen(_)
ByteLen(str) ==
    IF str = <<>> THEN 0 ELSE len_utf8(Head(str)) + ByteLen(Tail(str))

\* Rope::char_to_byte: the byte offset at which char index c starts.
char_to_byte(text, c) == ByteLen(SubSeq(text, 1, c))

\* Rope::byte_to_char: the index of the char that byte offset b lies in.
byte_to_char(text, b) ==
    Cardinality({c \in 1..Len(text) : char_to_byte(text, c) <= b})

\* Range::fragment: text.slice(from..to)
fragment(r, text) == SubSeq(text, from(r) + 1, to(r))

(***************************************************************************)
(* The pattern engine (regex).  A pattern is a char class with a           *)
(* repetition: \s \s+ \s* \S \S+ \S*.  find_iter yields the leftmost,      *)
(* greedy, non-overlapping matches as byte offsets into the string; an     *)
(* empty match right at the end of the previous match is not reported.     *)
(***************************************************************************)
Regex(class, min, many) == [class |-> class, min |-> min, many |-> many]

\* The patterns tried: \s+ \s* \s \S+
Regexes ==
    {Regex({" "}, 1, TRUE), Regex({" "}, 0, TRUE), Regex({" "}, 1, FALSE),
     Regex({"E"}, 1, TRUE)}

\* Chars of class matched greedily from char index q (0-based) on.
RECURSIVE RunLen(_, _, _)
RunLen(str, q, regex) ==
    IF q >= Len(str) \/ str[q + 1] \notin regex.class THEN 0
    ELSE IF regex.many THEN 1 + RunLen(str, q + 1, regex) ELSE 1

RECURSIVE Scan(_, _, _, _, _)
Scan(str, regex, q, lastEnd, acc) ==
    IF q > Len(str) THEN acc
    ELSE LET n == RunLen(str, q, regex) IN
         IF n < regex.min \/ (n = 0 /\ q = lastEnd)
         THEN Scan(str, regex, q + 1, lastEnd, acc)
         ELSE Scan(str, regex, IF n = 0 THEN q + 1 ELSE q + n, q + n,
                   Append(acc, [start |-> char_to_byte(str, q),
                                end |-> char_to_byte(str, q + n)]))

\* Regex::find_iter
find_iter(regex, str) == Scan(str, regex, 0, -1, <<>>)

\* Regex::is_match
is_match(regex, str) == find_iter(regex, str) # <<>>

(***************************************************************************)
(* Match-driven transforms.  Each returns NoResult (Option::None) or what  *)
(* Selection::new returns.                                                 *)
(***************************************************************************)
NoResult == [none |-> TRUE]

RECURSIVE Concat(_)
Concat(seqs) == IF seqs = <<>> THEN <<>> ELSE Head(seqs) \o Concat(Tail(seqs))

\* A plausible slip: a full match asked for where is_match asks for a match
\* anywhere in the fragment.
keep_result_fullMatch(text, selection, regex) ==
    SelectSeq(selection.ranges,
              LAMBDA range :
                \E k \in DOMAIN find_iter(regex, fragment(range, text)) :
                    LET m == find_iter(regex, fragment(range, text))[k]
                    IN  m.start = 0 /\ m.end = ByteLen(fragment(range, text)))

\* keep_matches: the ranges that pass the filter.
keep_result(text, selection, regex) ==
    SelectSeq(selection.ranges,
              LAMBDA range : is_match(regex, fragment(range, text)))

keep_matches(text, selection, regex, order) ==
    LET result == keep_result(text, selection, regex)
    IN  IF result # <<>> THEN SelectionNew(result, 0, order) ELSE NoResult

\* A plausible slip: the match offsets taken as offsets into the text, the
\* start of the fragment forgotten.
select_range_relative(text, s, regex) ==
    LET mats == find_iter(regex, fragment(s, text))
    IN  [k \in DOMAIN mats |->
            RangeNew(byte_to_char(text, mats[k].start),
                     byte_to_char(text, mats[k].end))]

\* select_on_matches: the ranges pushed for one range of the selection.
select_range(text, s, regex) ==
    LET start_byte == char_to_byte(text, from(s))
        mats == find_iter(regex, fragment(s, text))
    IN  [k \in DOMAIN mats |->
            RangeNew(byte_to_char(text, start_byte + mats[k].start),
                     byte_to_char(text, start_byte + mats[k].end))]

select_result(text, selection, regex) ==
    Concat([i \in DOMAIN selection.ranges |->
                select_range(text, selection.ranges[i], regex)])

select_on_matches(text, selection, regex, order) ==
    LET result == select_result(text, selection, regex)
    IN  IF result # <<>> THEN SelectionNew(result, 0, order) ELSE NoResult

\* The loop over the matches in split_on_matches: each match pushes
\* Range::new(start, end) and moves start behind the match.
RECURSIVE SplitLoop(_, _, _, _, _, _)
SplitLoop(text, start_byte, mats, k, start, result) ==
    IF k > Len(mats) THEN [start |-> start, result |-> result]
    ELSE LET end == byte_to_char(text, start_byte + mats[k].start) IN
         SplitLoop(text, start_byte, mats, k + 1,
                   byte_to_char(text, start_byte + mats[k].end),
                   Append(result, RangeNew(start, end)))

\* A plausible slip: empty pieces dropped, the leading one included.
split_range_dropEmpty(text, s, regex) ==
    IF from(s) = to(s) THEN <<s>>
    ELSE LET loop == SplitLoop(text, char_to_byte(text, from(s)),
                               find_iter(regex, fragment(s, text)), 1,
                               from(s), <<>>)
         IN  SelectSeq(IF loop.start < to(s)
                       THEN Append(loop.result, RangeNew(loop.start, to(s)))
                       ELSE loop.result,
                       LAMBDA piece : ~is_empty(piece))

\* A plausible slip: the trailing piece pushed even when it is empty.
split_range_trailing(text, s, regex) ==
    IF from(s) = to(s) THEN <<s>>
    ELSE LET loop == SplitLoop(text, char_to_byte(text, from(s)),
                               find_iter(regex, fragment(s, text)), 1,
                               from(s), <<>>)
         IN  Append(loop.result, RangeNew(loop.start, to(s)))

\* split_on_matches: the ranges pushed for one range of the selection.
split_range(text, s, regex) ==
    IF from(s) = to(s) THEN <<s>>
    ELSE LET sel_start == from(s)
             sel_end == to(s)
             start_byte == char_to_byte(text, sel_start)
             loop == SplitLoop(text, start_byte,
                               find_iter(regex, fragment(s, text)), 1,
                               sel_start, <<>>)
         IN  IF loop.start < sel_end
             THEN Append(loop.result, RangeNew(loop.start, sel_end))
             ELSE loop.result

split_result(text, selection, regex) ==
    Concat([i \in DOMAIN selection.ranges |->
                split_range(text, selection.ranges[i], regex)])

split_on_matches(text, selection, regex, order) ==
    SelectionNew(split_result(text, selection, regex), 0, order)

(***************************************************************************)
(* State.  sel is the Selection the editor holds (Nothing before one is    *)
(* constructed).  last records the last operation: its outcome ("some": a  *)
(* Selection was returned, "none": the Option was None, "panic": the call  *)
(* panicked), whether normalize took primary_index below 0 and, for an     *)
(* operation recorded in full, its name, the Selection it was applied to   *)
(* (pre) and its arguments (arg).                                          *)
(***************************************************************************)
Nothing == [nothing |-> TRUE]
NoArg == <<>>

Last(op, pre, arg, res, underflow) ==
    [op |-> op, pre |-> pre, arg |-> arg, res |-> res, underflow |-> underflow]

\* how = "full" records the operation in full; an operation of the sequence
\* leading to it (how = "step", or "hinted" for the vertical move that caches
\* the column) leaves its outcome alone.
Record(how, op, pre, arg, res, underflow) ==
    IF how = "full" THEN Last(op, pre, arg, res, underflow)
    ELSE Last(how, Nothing, NoArg, IF res = "none" THEN "some" ELSE res,
              underflow)

\* What a call that returns r leaves behind: the editor stores a returned
\* Selection and keeps the one it had when r is None or the call panicked.
Outcome(how, op, arg, r) ==
    IF r = NoResult \/ r = Panic
    THEN /\ sel' = sel
         /\ last' = Record(how, op, sel, arg,
                           IF r = Panic THEN "panic" ELSE "none", FALSE)
    ELSE /\ sel' = AsSelection(r)
         /\ last' = Record(how, op, sel, arg, "some", r.underflow)

ListsOf(S, n) == UNION {[1..k -> S] : k \in 0..n}

Init ==
    /\ sel = Nothing
    /\ last = Last("init", Nothing, NoArg, "none", FALSE)

Single ==
    /\ last.op = "init"
    /\ \E a \in Positions, h \in Positions :
        Outcome("step", "single", NoArg, Returned(single(a, h)))

Point ==
    /\ last.op = "init"
    /\ \E pos \in Positions :
        Outcome("step", "point", NoArg, Returned(point(pos)))

\* Selection::new as the constructor of the editor's Selection.
New(how, lists) ==
    /\ last.op = "init"
    /\ \E ranges \in lists :
        \E p \in 0..Max(0, Len(ranges) - 1) :
          \E order \in SortOrders(ranges) :
            Outcome(how, "new", <<ranges, p>>, SelectionNew(ranges, p, order))

\* push, on a Selection of fewer than cap ranges.
Push(how, ranges, cap) ==
    /\ sel # Nothing
    /\ Len(sel.ranges) < cap
    /\ \E range \in ranges :
         \E order \in SortOrders(Append(sel.ranges, range)) :
           Outcome(how, "push", range, push(sel, range, order))

IntoSingle(how) ==
    /\ sel # Nothing
    /\ Outcome(how, "into_single", NoArg, Returned(into_single(sel)))

Mapped(s, changes) ==
    [i \in DOMAIN s.ranges |-> RangeMap(s.ranges[i], changes)]

\* Edits keep the buffer within MaxPos chars.
Map(how) ==
    /\ sel # Nothing
    /\ \E changes \in ChangeSets :
        /\ changes.kind = "delete" => changes.from < changes.to
        /\ \A i \in DOMAIN sel.ranges :
              to(Mapped(sel, changes)[i]) <= MaxPos
        /\ \E order \in SortOrders(Mapped(sel, changes)) :
             Outcome(how, "map", changes, SelectionMap(sel, changes, order))

Transform(how, closures) ==
    /\ sel # Nothing
    /\ \E f \in closures :
        /\ f.kind = "extend" => f.from <= f.to
        /\ \E order \in
                SortOrders([i \in DOMAIN sel.ranges |-> Apply(f, sel.ranges[i])]) :
             Outcome(how, "transform", f, transform(sel, f, order))

KeepMatches(how) ==
    /\ sel # Nothing
    /\ \E text \in Texts, regex \in Regexes :
        \E order \in SortOrders(keep_result(text, sel, regex)) :
            Outcome(how, "keep_matches", <<text, regex>>,
                    keep_matches(text, sel, regex, order))

SelectOnMatches(how) ==
    /\ sel # Nothing
    /\ \E text \in Texts, regex \in Regexes :
        \E order \in SortOrders(select_result(text, sel, regex)) :
            Outcome(how, "select_on_matches", <<text, regex>>,
                    select_on_matches(text, sel, regex, order))

SplitOnMatches(how) ==
    /\ sel # Nothing
    /\ \E text \in Texts, regex \in Regexes :
        \E order \in SortOrders(split_result(text, sel, regex)) :
            Outcome(how, "split_on_matches", <<text, regex>>,
                    split_on_matches(text, sel, regex, order))

(***************************************************************************)
(* Spec: a Selection is constructed and taken through any sequence of      *)
(* operations (Step), possibly ending with a vertical move (Hinted); one   *)
(* more operation that is not driven by a pattern, or Selection::new       *)
(* itself, is then applied and recorded in full (Applied).                 *)
(***************************************************************************)
Step ==
    /\ last.op \in {"init", "step"}
    /\ \/ Single
       \/ Point
       \/ New("step", ListsOf(PlainRanges, MaxRanges))
       \/ Push("step", PlainRanges, MaxRanges)
       \/ IntoSingle("step")
       \/ Map("step")
       \/ Transform("step", Closures)
       \/ KeepMatches("step")
       \/ SelectOnMatches("step")
       \/ SplitOnMatches("step")

Hinted ==
    /\ last.op = "step"
    /\ Transform("hinted", {Hint})

Applied ==
    \/ New("full", ListsOf(PlainRanges, MaxRanges))
    \/ /\ last.op \in {"step", "hinted"}
       /\ \/ Push("full", PlainRanges, MaxRanges + 1)
          \/ IntoSingle("full")
          \/ Map("full")
          \/ Transform("full", Closures \cup {Hint})

Next ==
    \/ Step
    \/ Hinted
    \/ Applied

Spec == Init /\ [][Next]_vars

(***************************************************************************)
(* SpecMatch: the same sequences of operations, then Selection::new or one *)
(* of the pattern-driven transforms applied and recorded in full.          *)
(***************************************************************************)
Matched ==
    \/ New("full", ListsOf(PlainRanges, MaxRanges))
    \/ /\ last.op \in {"step", "hinted"}
       /\ \/ KeepMatches("full")
          \/ SelectOnMatches("full")
          \/ SplitOnMatches("full")

NextMatch ==
    \/ Step
    \/ Hinted
    \/ Matched

SpecMatch == Init /\ [][NextMatch]_vars

(***************************************************************************)
(* SpecNew: Selection::new as a function of its arguments.                 *)
(***************************************************************************)
NormRanges ==
    {RangeNew(a, h) : a \in 0..NormMaxPos, h \in 0..NormMaxPos}

NewApply == New("full", ListsOf(NormRanges, NormMaxRanges))

NextNew == NewApply

SpecNew == Init /\ [][NextNew]_vars

(***************************************************************************)
(* SpecOverlaps: Range::overlaps as a function of two ranges.              *)
(***************************************************************************)
InitOverlaps ==
    /\ sel = Nothing
    /\ \E a \in Ranges, b \in Ranges :
        last = Last("input", Nothing, <<a, b>>, "none", FALSE)

Overlaps ==
    /\ last.op = "input"
    /\ sel' = sel
    /\ last' = [last EXCEPT !.op = "overlaps",
                            !.res = overlaps(last.arg[1], last.arg[2])]

NextOverlaps == Overlaps

SpecOverlaps == InitOverlaps /\ [][NextOverlaps]_vars

(***************************************************************************)
(* Properties.                                                             *)
(***************************************************************************)
SortedByStart(ranges) ==
    \A i \in DOMAIN ranges : \A j \in DOMAIN ranges :
        i < j => from(ranges[i]) <= from(ranges[j])

NoOverlaps(ranges) ==
    \A i \in DOMAIN ranges : \A j \in DOMAIN ranges :
        i # j => ~overlaps(ranges[i], ranges[j])

PrimaryInBounds(s) == s.primary_index \in 0..(Len(s.ranges) - 1)

\* outer covers inner: outer.from() <= inner.from() and inner.to() <= outer.to()
Subsumes(outer, inner) == from(outer) <= from(inner) /\ to(inner) <= to(outer)

\* C1: every Selection reached from single, point or new by any sequence of
\* push, into_single, map, transform, keep_matches, select_on_matches and
\* split_on_matches has ranges that are non-empty, sorted by from() and
\* pairwise non-overlapping under Range::overlaps, and a primary_index below
\* their number.
C1_Invariants ==
    sel # Nothing =>
        /\ sel.ranges # <<>>
        /\ SortedByStart(sel.ranges)
        /\ NoOverlaps(sel.ranges)
        /\ PrimaryInBounds(sel)

\* A push onto a Selection of two or more ranges merged ranges, and the
\* primary index moved down with the merge.
C1_Witness ==
    /\ last.op = "push"
    /\ Len(last.pre.ranges) >= 2
    /\ Len(sel.ranges) < Len(last.pre.ranges)
    /\ sel.primary_index < Len(last.pre.ranges) - 1

\* C2: the primary range of Selection::new(ranges, p) subsumes ranges[p], the
\* primary range after s.push(r) subsumes r, and no normalization takes
\* primary_index below 0.
C2_PrimaryTracking ==
    /\ ~last.underflow
    /\ last.op = "new" /\ last.res = "some" =>
            /\ PrimaryInBounds(sel)
            /\ Subsumes(primary(sel), last.arg[1][last.arg[2] + 1])
    /\ last.op = "push" =>
            /\ PrimaryInBounds(sel)
            /\ Subsumes(primary(sel), last.arg)

\* Selection::new merged the range at p into an earlier one: the primary
\* index was decremented and the primary range is wider than ranges[p].
C2_Witness ==
    /\ last.op = "new"
    /\ last.res = "some"
    /\ sel.primary_index < last.arg[2]
    /\ primary(sel) # last.arg[1][last.arg[2] + 1]
    /\ Len(sel.ranges) < Len(last.arg[1])

\* The output ranges that cover input range r.
Covering(outputs, r) == {j \in DOMAIN outputs : Subsumes(outputs[j], r)}

\* Every output range spans exactly [min start, max end] of the inputs it covers.
SpansItsInputs(inputs, outputs) ==
    \A j \in DOMAIN outputs :
        LET covered == {i \in DOMAIN inputs : Subsumes(outputs[j], inputs[i])}
        IN  /\ covered # {}
            /\ \E i \in covered : from(inputs[i]) = from(outputs[j])
            /\ \E i \in covered : to(inputs[i]) = to(outputs[j])

\* An input range that overlaps no other input range is in the output as it is.
LoneRangesUnchanged(inputs, outputs) ==
    \A i \in DOMAIN inputs :
        (\A k \in DOMAIN inputs : k # i => ~overlaps(inputs[i], inputs[k]))
            => \E j \in DOMAIN outputs : outputs[j] = inputs[i]

\* The outputs contain exactly the positions the inputs contain.
SamePositions(inputs, outputs) ==
    \A pos \in 0..(NormMaxPos + 1) :
        (\E j \in DOMAIN outputs : contains(outputs[j], pos))
            <=> (\E i \in DOMAIN inputs : contains(inputs[i], pos))

\* C3 as stated: of a list of two or more ranges handed to Selection::new,
\* each range is covered by exactly one output range, each output range spans
\* exactly the inputs it covers, and non-overlapping ranges are kept as they
\* are.
C3_ExactlyOneCover ==
    last.op = "new" /\ last.res = "some" /\ Len(last.arg[1]) >= 2 =>
        /\ \A i \in DOMAIN last.arg[1] :
                Cardinality(Covering(sel.ranges, last.arg[1][i])) = 1
        /\ SpansItsInputs(last.arg[1], sel.ranges)
        /\ LoneRangesUnchanged(last.arg[1], sel.ranges)
        /\ SamePositions(last.arg[1], sel.ranges)

\* C3 amended: each input range is covered by at least one output range, by
\* exactly one unless it is zero-width (a zero-width range at the shared edge
\* of two output ranges is covered by both, never by more); the rest as
\* stated.
C3_MergeCorrect ==
    last.op = "new" /\ last.res = "some" /\ Len(last.arg[1]) >= 2 =>
        /\ \A i \in DOMAIN last.arg[1] :
            LET n == Cardinality(Covering(sel.ranges, last.arg[1][i]))
            IN  /\ n >= 1
                /\ n <= 2
                /\ ~is_empty(last.arg[1][i]) => n = 1
        /\ SpansItsInputs(last.arg[1], sel.ranges)
        /\ LoneRangesUnchanged(last.arg[1], sel.ranges)
        /\ SamePositions(last.arg[1], sel.ranges)

\* Three ranges were merged into two, and a zero-width input range sits at
\* the edge shared by the two output ranges.
C3_Witness ==
    /\ last.op = "new"
    /\ Len(last.arg[1]) = 3
    /\ Len(sel.ranges) = 2
    /\ \E i \in DOMAIN last.arg[1] :
        /\ is_empty(last.arg[1][i])
        /\ Cardinality(Covering(sel.ranges, last.arg[1][i])) = 2

Flipped(r) == Range(r.head, r.anchor, r.horiz)

\* C4: a.overlaps(b) iff the starts are equal or the spans properly intersect;
\* the result is symmetric and independent of either range's direction; two
\* non-zero-width ranges that touch at an edge do not overlap; a zero-width
\* range at another range's start overlaps it; a zero-width range at the end
\* of another range (an end that is not also its start) does not.
C4_Overlaps ==
    last.op = "overlaps" =>
        LET a == last.arg[1]
            b == last.arg[2]
            a_start == IF a.anchor <= a.head THEN a.anchor ELSE a.head
            a_end == IF a.anchor <= a.head THEN a.head ELSE a.anchor
            b_start == IF b.anchor <= b.head THEN b.anchor ELSE b.head
            b_end == IF b.anchor <= b.head THEN b.head ELSE b.anchor
        IN  /\ last.res <=>
                    (a_start = b_start \/ (a_end > b_start /\ b_end > a_start))
            /\ last.res <=> overlaps(b, a)
            /\ last.res <=> overlaps(Flipped(a), b)
            /\ last.res <=> overlaps(a, Flipped(b))
            /\ a_start < a_end /\ b_start < b_end /\ a_end = b_start
                    => ~last.res
            /\ a_start = a_end /\ a_start = b_start => last.res
            /\ a_start = a_end /\ a_start = b_end /\ b_start < b_end
                    => ~last.res

\* overlaps was applied to a zero-width range and a backward range starting
\* at it, and returned true.
C4_Witness ==
    /\ last.op = "overlaps"
    /\ is_empty(last.arg[1])
    /\ last.arg[2].anchor > last.arg[2].head
    /\ last.arg[1].head = last.arg[2].head
    /\ last.res = TRUE

\* What Selection::new returns for the arguments recorded when the sort is stable.
StableNew == SelectionNew(last.arg[1], last.arg[2], StableOrder(last.arg[1]))

\* C9 as stated: the Selection returned by Selection::new (anchors, heads and
\* primary_index) is the same whichever order the unstable sort leaves ranges
\* of equal start in.
C9_OrderIndependent ==
    last.op = "new" /\ last.res = "some" => sel = AsSelection(StableNew)

(***************************************************************************)
(* The match-driven transforms, stated from the matches in char offsets.   *)
(***************************************************************************)
\* The char index of byte offset b of str, a char boundary.
CharOf(str, b) == CHOOSE c \in 0..Len(str) : ByteLen(SubSeq(str, 1, c)) = b

\* The matches of regex in the fragment of r, as char offsets into text.
MatchSpans(text, r, regex) ==
    LET frag == fragment(r, text)
        ms == find_iter(regex, frag)
    IN  [k \in DOMAIN ms |->
            [start |-> from(r) + CharOf(frag, ms[k].start),
             end |-> from(r) + CharOf(frag, ms[k].end)]]

Satisfies(text, r, regex) == MatchSpans(text, r, regex) # <<>>

AllMatches(text, s, regex) ==
    Concat([i \in DOMAIN s.ranges |->
        LET ms == MatchSpans(text, s.ranges[i], regex)
        IN  [k \in DOMAIN ms |-> RangeNew(ms[k].start, ms[k].end)]])

\* The gaps between the matches in r: one before each match, and one behind
\* the last match unless it is empty; a zero-width r is its own gap.
Gaps(text, r, regex) ==
    IF is_empty(r) THEN <<r>>
    ELSE LET ms == MatchSpans(text, r, regex)
             n == Len(ms)
             before == [k \in 1..n |->
                            RangeNew(IF k = 1 THEN from(r) ELSE ms[k - 1].end,
                                     ms[k].start)]
             behind == IF n = 0 THEN from(r) ELSE ms[n].end
         IN  IF behind < to(r)
             THEN Append(before, RangeNew(behind, to(r)))
             ELSE before

\* An empty match at the very start of the fragment of a non-zero-width r.
LeadsWithEmptyMatch(text, r, regex) ==
    /\ ~is_empty(r)
    /\ MatchSpans(text, r, regex) # <<>>
    /\ MatchSpans(text, r, regex)[1].start = from(r)
    /\ MatchSpans(text, r, regex)[1].end = from(r)

\* The gaps of every range of s, in order.
AllGaps(text, s, regex) ==
    Concat([i \in DOMAIN s.ranges |-> Gaps(text, s.ranges[i], regex)])

\* The same, less the leading gap of every range that leads with an empty
\* match.
AllGapsMerged(text, s, regex) ==
    Concat([i \in DOMAIN s.ranges |->
        IF LeadsWithEmptyMatch(text, s.ranges[i], regex)
        THEN Tail(Gaps(text, s.ranges[i], regex))
        ELSE Gaps(text, s.ranges[i], regex)])

\* C5 as stated: split_on_matches returns, for every non-zero-width range, one
\* range per gap between the matches in its fragment, with a leading
\* zero-width range when a match starts at the very start and no trailing one
\* when a match ends at the very end; zero-width ranges are returned unchanged.
C5_SplitGaps ==
    last.op = "split_on_matches" =>
        /\ last.res = "some"
        /\ sel.ranges = AllGaps(last.arg[1], last.pre, last.arg[2])

\* C5 amended: as stated when the match at the very start of the fragment is
\* not empty; after an empty match at the very start, the leading zero-width
\* range is merged by normalization with the range that follows it, so the
\* result holds the gaps but the leading one.
C5_SplitGapsMerged ==
    last.op = "split_on_matches" =>
        /\ last.res = "some"
        /\ sel.ranges = AllGapsMerged(last.arg[1], last.pre, last.arg[2])

\* A backward range was split on matches that are not empty: one at its very
\* start, which left a leading zero-width range, and one at its very end,
\* which left none; a zero-width range after it came through unchanged.
C5_Witness ==
    /\ last.op = "split_on_matches"
    /\ last.arg[2].min = 1
    /\ Len(last.pre.ranges) = 2
    /\ last.pre.ranges[1].anchor > last.pre.ranges[1].head
    /\ is_empty(last.pre.ranges[2])
    /\ Len(sel.ranges) = 3
    /\ is_empty(sel.ranges[1])
    /\ to(sel.ranges[2]) < to(last.pre.ranges[1])
    /\ sel.ranges[3] = last.pre.ranges[2]

\* Matches of equal start collapsed into one range that spans the longest.
RECURSIVE CollapseStarts(_)
CollapseStarts(list) ==
    IF Len(list) <= 1 THEN list
    ELSE LET rest == CollapseStarts(Tail(list)) IN
         IF from(Head(list)) = from(Head(rest))
         THEN <<RangeNew(from(Head(list)),
                         Max(to(Head(list)), to(Head(rest))))>> \o Tail(rest)
         ELSE <<Head(list)>> \o rest

\* C6 as stated: when a range has a match, select_on_matches returns exactly
\* one range per match, at the match's span in char offsets and forward, with
\* primary_index 0.
C6_OnePerMatch ==
    /\ last.op = "select_on_matches"
    /\ AllMatches(last.arg[1], last.pre, last.arg[2]) # <<>>
    => /\ last.res = "some"
       /\ sel.ranges = AllMatches(last.arg[1], last.pre, last.arg[2])
       /\ sel.primary_index = 0

DistinctStarts(list) ==
    \A i \in DOMAIN list : \A j \in DOMAIN list :
        i # j => from(list[i]) # from(list[j])

\* C6 amended: one range per match start: exactly one range per match, except
\* that matches found in different ranges that start at the same offset (an
\* empty match at the end of one range's fragment and a match at the start of
\* the next range, which begins there) are merged into one range by
\* normalization; every range is forward and primary_index is 0.
C6_OnePerMatchStart ==
    last.op = "select_on_matches" =>
        LET matches == AllMatches(last.arg[1], last.pre, last.arg[2]) IN
        matches # <<>> =>
            /\ last.res = "some"
            /\ sel.ranges = CollapseStarts(matches)
            /\ \A i \in DOMAIN sel.ranges :
                    sel.ranges[i].anchor <= sel.ranges[i].head
            /\ sel.primary_index = 0
            /\ DistinctStarts(matches) => sel.ranges = matches

\* Matches were selected in two ranges, the first of them backward and not
\* primary; an empty match at the end of the first and a match at the start
\* of the second were merged.
C6_Witness ==
    /\ last.op = "select_on_matches"
    /\ last.res = "some"
    /\ Len(last.pre.ranges) = 2
    /\ last.pre.ranges[1].anchor > last.pre.ranges[1].head
    /\ last.pre.primary_index = 1
    /\ Len(sel.ranges) >= 2
    /\ Len(sel.ranges) < Len(AllMatches(last.arg[1], last.pre, last.arg[2]))

\* C7: when a range satisfies the pattern, keep_matches returns exactly the
\* ranges that satisfy it, in their order and with anchor, head and horiz
\* unchanged, with primary_index 0.
C7_KeepsMatching ==
    /\ last.op = "keep_matches"
    /\ \E i \in DOMAIN last.pre.ranges :
            Satisfies(last.arg[1], last.pre.ranges[i], last.arg[2])
    => /\ last.res = "some"
       /\ sel.ranges =
            SelectSeq(last.pre.ranges,
                      LAMBDA r : Satisfies(last.arg[1], r, last.arg[2]))
       /\ sel.primary_index = 0

\* Of two ranges with a cached column, the second of them primary,
\* keep_matches dropped the first and kept the second as it was.
C7_Witness ==
    /\ last.op = "keep_matches"
    /\ last.res = "some"
    /\ Len(last.pre.ranges) = 2
    /\ last.pre.primary_index = 1
    /\ last.pre.ranges[2].horiz # None
    /\ last.pre.ranges[2].anchor > last.pre.ranges[2].head
    /\ sel.ranges = <<last.pre.ranges[2]>>

\* C8: Selection::new panics on an empty list; keep_matches returns None
\* exactly when no range satisfies the pattern, select_on_matches exactly
\* when no range has a match, split_on_matches never, as every range
\* contributes a range; none of the three panics in Selection::new.
C8_NoResultOrSelection ==
    /\ last.op = "new" => (last.res = "panic" <=> last.arg[1] = <<>>)
    /\ last.op = "keep_matches" =>
            /\ last.res # "panic"
            /\ last.res = "none" <=>
                    \A i \in DOMAIN last.pre.ranges :
                        ~Satisfies(last.arg[1], last.pre.ranges[i], last.arg[2])
    /\ last.op = "select_on_matches" =>
            /\ last.res # "panic"
            /\ last.res = "none" <=>
                    \A i \in DOMAIN last.pre.ranges :
                        ~Satisfies(last.arg[1], last.pre.ranges[i], last.arg[2])
    /\ last.op = "split_on_matches" =>
            /\ last.res = "some"
            /\ \A i \in DOMAIN last.pre.ranges :
                    split_range(last.arg[1], last.pre.ranges[i], last.arg[2])
                        # <<>>
    /\ last.res = "none" \/ last.res = "panic" => sel = last.pre

\* split_on_matches returned a Selection for a range whose whole fragment is
\* one match.
C8_Witness ==
    /\ last.op = "split_on_matches"
    /\ last.res = "some"
    /\ Len(last.pre.ranges) = 1
    /\ to(last.pre.ranges[1]) - from(last.pre.ranges[1]) >= 2
    /\ Len(MatchSpans(last.arg[1], last.pre.ranges[1], last.arg[2])) = 1
    /\ MatchSpans(last.arg[1], last.pre.ranges[1], last.arg[2])[1]
            = [start |-> from(last.pre.ranges[1]),
               end |-> to(last.pre.ranges[1])]

\* C10: Selection::new(s.ranges(), s.primary_index()) equals s for every
\* Selection s a constructor or an operation produced, whatever the order the
\* sort leaves, and so does s.transform(identity).
C10_Idempotent ==
    /\ sel # Nothing =>
        \A order \in SortOrders(sel.ranges) :
            /\ AsSelection(SelectionNew(sel.ranges, sel.primary_index, order))
                    = sel
            /\ AsSelection(transform(sel, [kind |-> "identity"], order)) = sel
    /\ last.op = "transform" /\ last.arg.kind = "identity" => sel = last.pre

\* transform(identity) was applied to a Selection of two ranges with a
\* cached column whose primary is the second.
C10_Witness ==
    /\ last.op = "transform"
    /\ last.arg.kind = "identity"
    /\ Len(sel.ranges) = 2
    /\ sel.primary_index = 1
    /\ sel.ranges[1].horiz # None
====
